---- MODULE Spec2Model ----
(***************************************************************************)
(* Movie Oracle: the Oracle Score engine (calculateOracleScore) as it is   *)
(* written three times in the repository: src/shared.js, the older         *)
(* src/app.js copy and the older src/discover.js copy.                     *)
(*                                                                         *)
(* A movie record is a function from field names to JavaScript values.     *)
(* JavaScript values are tagged records; a string is the sequence of its   *)
(* characters, so that trim, toUpperCase, replace, parseInt, parseFloat    *)
(* and Number are computed character by character as the engine does.     *)
(* Numbers are exact rationals n/d (the ratings and scores drawn here are  *)
(* multiples of 0.1 or 0.5 for which IEEE doubles give the same rounded    *)
(* results); NaN is a value of its own; Infinity never arises because no   *)
(* divisor is zero where the code divides.                                 *)
(*                                                                         *)
(* The search page's retry machine (src/app.js, performSearch and          *)
(* handleSearch with the cold-start notification) is modelled beside it:   *)
(* one step per continuation the event loop runs.  So are the panels of    *)
(* the search page (showLoading, displayResults, showError), the discover  *)
(* page (src/unnamed/part_000: loadDiscoverContent, loadGenreMovies,       *)
(* loadStudioMovies, renderMovieGrid) and the detail modal (openModal),    *)
(* with the allMovies cache the pages fill and the modal reads.            *)
(***************************************************************************)
EXTENDS Integers, Sequences, FiniteSets

VARIABLES movie, copy, blend, score, badge, ratingBox, calls,
          search, backendReady, coldStartNotificationTimeout, pendingTimers, notification,
          view, loading, searchResults, emptyState, errorState,
          aiInterpretation, interpretationText, resultsSummary, summaryText,
          resultsContainer, displayTimers, responses, overlapping, displayed,
          allMovies, modalBackdrop, modalContent, modalCalls,
          grids, discover, loads

scoreVars == <<movie, copy, blend, score, badge, ratingBox, calls>>
searchVars == <<search, backendReady, coldStartNotificationTimeout, pendingTimers, notification>>
panelVars == <<loading, searchResults, emptyState, errorState,
               aiInterpretation, interpretationText, resultsSummary, summaryText>>
resultVars == <<resultsContainer, displayTimers, responses, overlapping, displayed>>
modalVars == <<modalBackdrop, modalContent, modalCalls>>
discoverVars == <<grids, discover, loads>>
pageVars == <<view, panelVars, resultVars, allMovies, modalVars, discoverVars>>
vars == <<scoreVars, searchVars, pageVars>>

-----------------------------------------------------------------------------
(* JavaScript values *)

Undefined == [t |-> "undefined"]
Null == [t |-> "null"]
NaN == [t |-> "nan"]

Abs(n) == IF n < 0 THEN -n ELSE n

RECURSIVE GCD(_, _)
GCD(a, b) == IF b = 0 THEN a ELSE GCD(b, a % b)

\* the number n/d (d > 0), in lowest terms
Num(n, d) == LET g == GCD(Abs(n), d) IN [t |-> "number", n |-> n \div g, d |-> d \div g]
IntNum(n) == [t |-> "number", n |-> n, d |-> 1]
Str(s) == [t |-> "string", s |-> s]
\* true and false
Bool(b) == [t |-> "boolean", b |-> b]
\* an object that is not null, such as {}
Obj == [t |-> "object"]

\* typeof v
TypeOf(v) == CASE v.t = "nan" -> "number"
               [] v.t = "null" -> "object"
               [] OTHER -> v.t

\* Number.isFinite(v): a number that is not NaN (Infinity is never produced)
NumberIsFinite(v) == v.t = "number"

\* isNaN(v), applied by the code to results of parseInt and parseFloat only
isNaN(v) == v.t # "number"

\* the truthiness of v in `if (v)` and `v && ...`
Truthy(v) == CASE v.t = "number" -> v.n # 0
               [] v.t = "string" -> v.s # <<>>
               [] v.t = "boolean" -> v.b
               [] v.t = "object" -> TRUE
               [] OTHER -> FALSE

-----------------------------------------------------------------------------
(* Arithmetic on numbers; NaN is contagious and every comparison with it   *)
(* is false.                                                               *)

Add(a, b) == IF a.t = "number" /\ b.t = "number"
             THEN Num(a.n * b.d + b.n * a.d, a.d * b.d) ELSE NaN
Mul(a, b) == IF a.t = "number" /\ b.t = "number"
             THEN Num(a.n * b.n, a.d * b.d) ELSE NaN
\* a / b for b # 0
Div(a, b) == IF a.t = "number" /\ b.t = "number"
             THEN IF b.n > 0 THEN Num(a.n * b.d, a.d * b.n)
                  ELSE Num(-(a.n * b.d), a.d * (-b.n))
             ELSE NaN
Gt(a, b) == a.t = "number" /\ b.t = "number" /\ a.n * b.d > b.n * a.d
Ge(a, b) == a.t = "number" /\ b.t = "number" /\ a.n * b.d >= b.n * a.d
Lt(a, b) == a.t = "number" /\ b.t = "number" /\ a.n * b.d < b.n * a.d

\* Math.round: the nearest integer, halves towards +Infinity
MathRound(a) == IF a.t = "number" THEN IntNum((2 * a.n + a.d) \div (2 * a.d)) ELSE NaN
MathMax(a, b) == IF a.t # "number" \/ b.t # "number" THEN NaN
                 ELSE IF Gt(b, a) THEN b ELSE a
MathMin(a, b) == IF a.t # "number" \/ b.t # "number" THEN NaN
                 ELSE IF Lt(b, a) THEN b ELSE a

-----------------------------------------------------------------------------
(* Strings *)

DigitChars == <<"0", "1", "2", "3", "4", "5", "6", "7", "8", "9">>
LowerChars == <<"a", "b", "c", "d", "e", "f", "g", "h", "i", "j", "k", "l", "m",
                "n", "o", "p", "q", "r", "s", "t", "u", "v", "w", "x", "y", "z">>
UpperChars == <<"A", "B", "C", "D", "E", "F", "G", "H", "I", "J", "K", "L", "M",
                "N", "O", "P", "Q", "R", "S", "T", "U", "V", "W", "X", "Y", "Z">>
WhiteSpace == {" ", "\t", "\n"}

IsDigit(c) == \E i \in 1..10 : DigitChars[i] = c
IsDigitOrDot(c) == IsDigit(c) \/ c = "."
DigitVal(c) == (CHOOSE i \in 1..10 : DigitChars[i] = c) - 1

\* String.prototype.toUpperCase
UpperChar(c) == IF \E i \in 1..26 : LowerChars[i] = c
                THEN UpperChars[CHOOSE i \in 1..26 : LowerChars[i] = c] ELSE c
ToUpperCase(s) == [i \in 1..Len(s) |-> UpperChar(s[i])]

\* String.prototype.trim
RECURSIVE TrimStart(_)
TrimStart(s) == IF s # <<>> /\ s[1] \in WhiteSpace THEN TrimStart(Tail(s)) ELSE s
RECURSIVE TrimEnd(_)
TrimEnd(s) == IF s # <<>> /\ s[Len(s)] \in WhiteSpace
              THEN TrimEnd(SubSeq(s, 1, Len(s) - 1)) ELSE s
Trim(s) == TrimEnd(TrimStart(s))

\* the longest prefix of s made of digits
RECURSIVE DigitPrefix(_)
DigitPrefix(s) == IF s # <<>> /\ IsDigit(s[1]) THEN <<s[1]>> \o DigitPrefix(Tail(s)) ELSE <<>>

\* the value of a digit string ("" counts 0)
RECURSIVE DigitsToNat(_)
DigitsToNat(s) == IF s = <<>> THEN 0
                  ELSE DigitsToNat(SubSeq(s, 1, Len(s) - 1)) * 10 + DigitVal(s[Len(s)])

RECURSIVE Pow10(_)
Pow10(k) == IF k = 0 THEN 1 ELSE 10 * Pow10(k - 1)

\* the decimal digits of a natural number
RECURSIVE NatToStr(_)
NatToStr(n) == IF n < 10 THEN <<DigitChars[n + 1]>>
               ELSE NatToStr(n \div 10) \o <<DigitChars[(n % 10) + 1]>>

\* the digits after the decimal point of r/d (0 <= r < d), at most k of them
RECURSIVE FracDigits(_, _, _)
FracDigits(r, d, k) == IF r = 0 \/ k = 0 THEN <<>>
                       ELSE <<DigitChars[((r * 10) \div d) + 1]>> \o FracDigits((r * 10) % d, d, k - 1)

\* the most fraction digits String(number) prints
MaxFracDigits == 17

\* String(v) for the values the engine converts: numbers and strings
NumToStr(x) == LET a == Abs(x.n)
                   ip == NatToStr(a \div x.d)
                   fp == FracDigits(a % x.d, x.d, MaxFracDigits)
               IN (IF x.n < 0 THEN <<"-">> ELSE <<>>) \o ip
                  \o (IF fp = <<>> THEN <<>> ELSE <<".">> \o fp)
JSString(v) == CASE v.t = "string" -> v.s
                 [] v.t = "number" -> NumToStr(v)
                 [] v.t = "nan" -> <<"N", "a", "N">>
                 [] v.t = "null" -> <<"n", "u", "l", "l">>
                 [] v.t = "boolean" -> IF v.b THEN <<"t", "r", "u", "e">>
                                       ELSE <<"f", "a", "l", "s", "e">>
                 [] v.t = "object" -> <<"[", "o", "b", "j", "e", "c", "t", " ",
                                        "O", "b", "j", "e", "c", "t", "]">>
                 [] OTHER -> <<"u", "n", "d", "e", "f", "i", "n", "e", "d">>

\* parseFloat on a string: leading white space, a sign, digits, a point, digits;
\* whatever follows is ignored; NaN when no digit was read.
\* (Exponents, "Infinity": no drawn string has them.)
ParseFloatStr(s) ==
    LET Value(neg, ip, fp) ==
            IF ip = <<>> /\ fp = <<>> THEN NaN
            ELSE Num((IF neg THEN -1 ELSE 1)
                         * (DigitsToNat(ip) * Pow10(Len(fp)) + DigitsToNat(fp)),
                     Pow10(Len(fp)))
        Fraction(rest) ==
            IF rest # <<>> /\ rest[1] = "." THEN DigitPrefix(Tail(rest)) ELSE <<>>
        Digits(neg, u, ip) == Value(neg, ip, Fraction(SubSeq(u, Len(ip) + 1, Len(u))))
        Unsigned(neg, u) == Digits(neg, u, DigitPrefix(u))
        Signed(t) == Unsigned(t # <<>> /\ t[1] = "-",
                              IF t # <<>> /\ t[1] \in {"+", "-"} THEN Tail(t) ELSE t)
    IN Signed(TrimStart(s))

\* parseInt on a string: leading white space, a sign, digits; NaN when no digit
\* was read.  (A 0x prefix: no drawn string has one.)
ParseIntStr(s) ==
    LET Value(neg, ip) ==
            IF ip = <<>> THEN NaN ELSE IntNum((IF neg THEN -1 ELSE 1) * DigitsToNat(ip))
        Signed(t) == Value(t # <<>> /\ t[1] = "-",
                           DigitPrefix(IF t # <<>> /\ t[1] \in {"+", "-"} THEN Tail(t) ELSE t))
    IN Signed(TrimStart(s))

\* parseFloat(v), parseInt(v): the argument is converted to a string first
parseFloat(v) == ParseFloatStr(JSString(v))
parseInt(v) == ParseIntStr(JSString(v))

\* Number(v), which is also the conversion `v * 10` applies to v:
\* undefined -> NaN, null -> 0, true -> 1, false -> 0, "" and white space -> 0,
\* a string that is wholly a decimal literal -> its value, any other string and
\* an object such as {} -> NaN
JSNumber(v) ==
    CASE v.t = "number" -> v
      [] v.t = "null" -> IntNum(0)
      [] v.t = "boolean" -> IF v.b THEN IntNum(1) ELSE IntNum(0)
      [] v.t = "string" ->
           LET Literal(t, u) ==
                   IF t = <<>> THEN IntNum(0)
                   ELSE IF /\ \A i \in 1..Len(u) : IsDigitOrDot(u[i])
                           /\ Cardinality({i \in 1..Len(u) : u[i] = "."}) <= 1
                        THEN ParseFloatStr(t) ELSE NaN
               Signed(t) == Literal(t, IF t # <<>> /\ t[1] \in {"+", "-"} THEN Tail(t) ELSE t)
           IN Signed(Trim(v.s))
      [] OTHER -> NaN

\* the string 'N/A'
NA == <<"N", "/", "A">>

-----------------------------------------------------------------------------
(* src/shared.js: calculateOracleScore, the copy the current search and    *)
(* discover pages call                                                     *)

\* (the point left out of the character class, as in the revenue parsers)
toNumber_digitsOnly(val) ==
    IF val.t \in {"null", "undefined"} THEN Null
    ELSE IF TypeOf(val) = "number" THEN (IF NumberIsFinite(val) THEN val ELSE Null)
    ELSE IF TypeOf(val) = "string" THEN
        IF ToUpperCase(Trim(val.s)) = NA THEN Null
        ELSE LET Finite(num) == IF NumberIsFinite(num) THEN num ELSE Null
             IN Finite(ParseFloatStr(SelectSeq(val.s, IsDigit)))
    ELSE Null

\* toNumber: null for a missing, null, 'N/A' (any case, trimmed) or unparsable
\* value, else the number read from the digits and points of the string
toNumber(val) ==
    IF val.t \in {"null", "undefined"} THEN Null
    ELSE IF TypeOf(val) = "number" THEN (IF NumberIsFinite(val) THEN val ELSE Null)
    ELSE IF TypeOf(val) = "string" THEN
        IF ToUpperCase(Trim(val.s)) = NA THEN Null
        ELSE LET Finite(num) == IF NumberIsFinite(num) THEN num ELSE Null
             IN Finite(ParseFloatStr(SelectSeq(val.s, IsDigitOrDot)))
    ELSE Null

\* (the TMDb weight set to the 1.0 of the app.js copy)
sharedWeights_tmdb1 == [metascore |-> IntNum(3), rotten_tomatoes |-> Num(5, 2),
                        imdb_rating |-> IntNum(2), tmdb_rating |-> IntNum(1)]

\* the weights of the blend: 3.0, 2.5, 2.0, 1.5
sharedWeights == [metascore |-> IntNum(3), rotten_tomatoes |-> Num(5, 2),
                  imdb_rating |-> IntNum(2), tmdb_rating |-> Num(3, 2)]

\* scoreSum and weightSum after the four `if (x !== null)` lines
blendShared(m) ==
    LET Sums(s, w) == [scoreSum |-> s, weightSum |-> w]
        WithMetascore(acc, metascore) ==
            IF metascore # Null
            THEN Sums(Add(acc.scoreSum, Mul(metascore, sharedWeights.metascore)),
                      Add(acc.weightSum, sharedWeights.metascore))
            ELSE acc
        WithRottenTomatoes(acc, rottenTomatoes) ==
            IF rottenTomatoes # Null
            THEN Sums(Add(acc.scoreSum, Mul(rottenTomatoes, sharedWeights.rotten_tomatoes)),
                      Add(acc.weightSum, sharedWeights.rotten_tomatoes))
            ELSE acc
        WithImdb(acc, imdb) ==
            IF imdb # Null
            THEN Sums(Add(acc.scoreSum, Mul(Mul(imdb, IntNum(10)), sharedWeights.imdb_rating)),
                      Add(acc.weightSum, sharedWeights.imdb_rating))
            ELSE acc
        WithTmdb(acc, tmdb) ==
            IF tmdb # Null
            THEN Sums(Add(acc.scoreSum, Mul(Mul(tmdb, IntNum(10)), sharedWeights.tmdb_rating)),
                      Add(acc.weightSum, sharedWeights.tmdb_rating))
            ELSE acc
    IN WithTmdb(WithImdb(WithRottenTomatoes(WithMetascore(Sums(IntNum(0), IntNum(0)),
                                                          toNumber(m.metascore)),
                                            toNumber(m.rotten_tomatoes)),
                         toNumber(m.imdb_rating)),
                toNumber(m.tmdb_rating))

\* the local finalScore = scoreSum / weightSum; undefined when the call returns
\* before that line
finalScore_shared(m) ==
    LET baseScore == JSNumber(m.oracle_score)
        b == blendShared(m)
    IN IF NumberIsFinite(baseScore) \/ b.weightSum = IntNum(0) THEN Undefined
       ELSE Div(b.scoreSum, b.weightSum)

\* (the divergence bonus of the app.js copy added before rounding)
calculateOracleScore_shared_bonus(m) ==
    LET baseScore == JSNumber(m.oracle_score)
        b == blendShared(m)
        imdb == toNumber(m.imdb_rating)
        metascore == toNumber(m.metascore)
        bonus == IF Gt(Mul(imdb, IntNum(10)), Add(metascore, IntNum(15)))
                 THEN IntNum(5) ELSE IntNum(0)
    IN IF NumberIsFinite(baseScore)
       THEN MathMax(IntNum(0), MathMin(IntNum(100), MathRound(baseScore)))
       ELSE IF b.weightSum = IntNum(0) THEN Null
       ELSE MathMax(IntNum(0),
                    MathMin(IntNum(100), MathRound(Add(finalScore_shared(m), bonus))))

\* (a module-level cache: the last number any call returned is returned again)
calculateOracleScore_shared_cached(m) ==
    LET baseScore == JSNumber(m.oracle_score)
        b == blendShared(m)
    IN IF score.t = "number" THEN score
       ELSE IF NumberIsFinite(baseScore)
       THEN MathMax(IntNum(0), MathMin(IntNum(100), MathRound(baseScore)))
       ELSE IF b.weightSum = IntNum(0) THEN Null
       ELSE MathMax(IntNum(0), MathMin(IntNum(100), MathRound(finalScore_shared(m))))

calculateOracleScore_shared(m) ==
    LET baseScore == JSNumber(m.oracle_score)
        b == blendShared(m)
    IN IF NumberIsFinite(baseScore)
       THEN MathMax(IntNum(0), MathMin(IntNum(100), MathRound(baseScore)))
       ELSE IF b.weightSum = IntNum(0) THEN Null
       ELSE MathMax(IntNum(0), MathMin(IntNum(100), MathRound(finalScore_shared(m))))

-----------------------------------------------------------------------------
(* src/app.js, lines 586-657: the older copy of calculateOracleScore       *)

\* scoreSum and weightSum after the four guarded additions (weights 3, 2.5, 2, 1)
blendApp(m) ==
    LET Sums(s, w) == [scoreSum |-> s, weightSum |-> w]
        \* the value a guarded block parses; NaN stands for a skipped block
        WithMetascore(acc, val) ==
            IF ~isNaN(val)
            THEN Sums(Add(acc.scoreSum, Mul(val, IntNum(3))), Add(acc.weightSum, IntNum(3)))
            ELSE acc
        WithRottenTomatoes(acc, val) ==
            IF ~isNaN(val)
            THEN Sums(Add(acc.scoreSum, Mul(val, Num(5, 2))), Add(acc.weightSum, Num(5, 2)))
            ELSE acc
        WithImdb(acc, val) ==
            IF ~isNaN(val)
            THEN Sums(Add(acc.scoreSum, Mul(Mul(val, IntNum(10)), IntNum(2))),
                      Add(acc.weightSum, IntNum(2)))
            ELSE acc
        WithTmdb(acc, tmdb_rating) ==
            IF Truthy(tmdb_rating)
            THEN Sums(Add(acc.scoreSum, Mul(Mul(JSNumber(tmdb_rating), IntNum(10)), IntNum(1))),
                      Add(acc.weightSum, IntNum(1)))
            ELSE acc
    IN WithTmdb(WithImdb(WithRottenTomatoes(WithMetascore(
                    Sums(IntNum(0), IntNum(0)),
                    IF Truthy(m.metascore) /\ m.metascore # Str(NA)
                    THEN parseInt(m.metascore) ELSE NaN),
                    IF Truthy(m.rotten_tomatoes) /\ m.rotten_tomatoes # Str(NA)
                    THEN parseInt(m.rotten_tomatoes) ELSE NaN),
                    IF Truthy(m.imdb_rating) /\ m.imdb_rating # Str(NA)
                    THEN parseFloat(m.imdb_rating) ELSE NaN),
                m.tmdb_rating)

\* (the comparison written >= instead of >)
cultClassicBonus_ge(m) ==
    IF Truthy(m.imdb_rating) /\ Truthy(m.metascore) /\ m.metascore # Str(NA)
    THEN LET imdbVal == Mul(parseFloat(m.imdb_rating), IntNum(10))
             metaVal == parseInt(m.metascore)
         IN IF Ge(imdbVal, Add(metaVal, IntNum(15))) THEN IntNum(5) ELSE IntNum(0)
    ELSE IntNum(0)

\* the "cult classic" bonus: 5 when IMDb x10 exceeds Metascore by more than 15
cultClassicBonus(m) ==
    IF Truthy(m.imdb_rating) /\ Truthy(m.metascore) /\ m.metascore # Str(NA)
    THEN LET imdbVal == Mul(parseFloat(m.imdb_rating), IntNum(10))
             metaVal == parseInt(m.metascore)
         IN IF Gt(imdbVal, Add(metaVal, IntNum(15))) THEN IntNum(5) ELSE IntNum(0)
    ELSE IntNum(0)

\* the blockbuster bonus: 3 when the digits of a revenue string read >= 1e9
blockbusterBonus(m) ==
    IF Truthy(m.revenue) /\ TypeOf(m.revenue) = "string"
    THEN LET revVal == ParseIntStr(SelectSeq(m.revenue.s, IsDigit))
         IN IF Ge(revVal, IntNum(1000000000)) THEN IntNum(3) ELSE IntNum(0)
    ELSE IntNum(0)

\* the local finalScore as first assigned, scoreSum / weightSum; undefined when
\* the call returns before that line
finalScore_app(m) ==
    LET b == blendApp(m)
    IN IF (m.oracle_score # Undefined /\ m.oracle_score # Null) \/ b.weightSum = IntNum(0)
       THEN Undefined
       ELSE Div(b.scoreSum, b.weightSum)

calculateOracleScore_app(m) ==
    LET b == blendApp(m)
    IN IF m.oracle_score # Undefined /\ m.oracle_score # Null THEN m.oracle_score
       ELSE IF b.weightSum = IntNum(0) THEN Null
       ELSE LET finalScore == Add(Add(finalScore_app(m), cultClassicBonus(m)),
                                  blockbusterBonus(m))
            IN MathMin(IntNum(100), MathRound(finalScore))

-----------------------------------------------------------------------------
(* src/discover.js, lines 139-193: the older discover copy                 *)

\* the components array: IMDb x10, Rotten Tomatoes, Metascore, TMDb x10
components(m) ==
    LET \* the value a guarded block parses; NaN stands for a skipped block
        PushTimes10(val) == IF ~isNaN(val) THEN <<Mul(val, IntNum(10))>> ELSE <<>>
        Push(val) == IF ~isNaN(val) THEN <<val>> ELSE <<>>
    IN PushTimes10(IF Truthy(m.imdb_rating) /\ m.imdb_rating # Str(NA)
                   THEN parseFloat(m.imdb_rating) ELSE NaN)
       \o Push(IF Truthy(m.rotten_tomatoes) /\ m.rotten_tomatoes # Str(NA)
               THEN parseInt(m.rotten_tomatoes) ELSE NaN)
       \o Push(IF Truthy(m.metascore) /\ m.metascore # Str(NA)
               THEN parseInt(m.metascore) ELSE NaN)
       \o (IF Truthy(m.tmdb_rating) THEN <<Mul(JSNumber(m.tmdb_rating), IntNum(10))>> ELSE <<>>)

\* components.reduce((a, b) => a + b, 0)
RECURSIVE reduceSum(_)
reduceSum(c) == IF c = <<>> THEN IntNum(0)
                ELSE Add(reduceSum(SubSeq(c, 1, Len(c) - 1)), c[Len(c)])

\* the ROI modifier
roiModifier(m) ==
    IF Truthy(m.roi) /\ m.roi # Str(NA)
    THEN LET Scale(roiVal) ==
                 IF isNaN(roiVal) THEN 0
                 ELSE IF Ge(roiVal, IntNum(4)) THEN 5
                 ELSE IF Ge(roiVal, Num(5, 2)) THEN 2
                 ELSE IF Lt(roiVal, IntNum(1)) THEN -5
                 ELSE 0
         IN Scale(parseFloat(m.roi))
    ELSE 0

\* the revenue modifier
revenueModifier(m) ==
    IF Truthy(m.revenue) /\ m.revenue # Str(NA)
    THEN LET Tier(revVal) ==
                 IF isNaN(revVal) THEN 0
                 ELSE IF Ge(revVal, IntNum(1000000000)) THEN 5
                 ELSE IF Ge(revVal, IntNum(500000000)) THEN 2
                 ELSE 0
         IN Tier(ParseIntStr(SelectSeq(JSString(m.revenue), IsDigit)))
    ELSE 0

\* the local baseScore, the plain mean of the components; undefined when the
\* call returns before that line
baseScore_discover(m) ==
    LET c == components(m)
    IN IF (m.ai_score # Undefined /\ m.ai_score # Null) \/ Len(c) = 0 THEN Undefined
       ELSE Div(reduceSum(c), IntNum(Len(c)))

calculateOracleScore_discover(m) ==
    LET c == components(m)
    IN IF m.ai_score # Undefined /\ m.ai_score # Null THEN m.ai_score
       ELSE IF Len(c) = 0 THEN Null
       ELSE LET modifier == roiModifier(m) + revenueModifier(m)
            IN MathMin(IntNum(100),
                       MathMax(IntNum(0),
                               MathRound(Add(baseScore_discover(m), IntNum(modifier)))))

-----------------------------------------------------------------------------
(* The renderers: what they show of the value calculateOracleScore returned; *)
(* undefined stands for the empty string '' they render when they omit it.   *)

\* the Oracle badge of createBigCard and renderMovieGrid:
\* ${oracleScore ? `...<span>${oracleScore}</span>...` : ''}
oracleBadge(oracleScore) ==
    IF Truthy(oracleScore) THEN Str(JSString(oracleScore)) ELSE Undefined

\* buildRatingBox('Oracle', value, true) of the modal: the text of the box
buildRatingBox(value) ==
    IF ~Truthy(value) \/ value = Str(NA) THEN Undefined ELSE Str(JSString(value))

-----------------------------------------------------------------------------
(* The records the backend's JSON supplies.  A field the JSON omits is     *)
(* undefined; a present field holds null, a number or a string.            *)

Fields == {"oracle_score", "ai_score", "metascore", "rotten_tomatoes",
           "imdb_rating", "tmdb_rating", "revenue", "roi"}
RatingFields == {"metascore", "rotten_tomatoes", "imdb_rating", "tmdb_rating"}

\* the values each field is drawn from
Drawn ==
    [oracle_score |-> <<Null, IntNum(42), IntNum(150), Num(175, 2), Str(<<"N", "/", "A">>),
                        Str(<<>>), Bool(TRUE)>>,
     ai_score |-> <<Null, IntNum(150), Num(175, 2), Str(<<"N", "/", "A">>)>>,
     metascore |-> <<Null, IntNum(0), IntNum(50), IntNum(59), IntNum(60),
                     Str(<<"N", "/", "A">>), Str(<<"n", "/", "a">>)>>,
     rotten_tomatoes |-> <<IntNum(80), Str(<<"8", "5", "%">>), Str(<<"N", "/", "A">>)>>,
     imdb_rating |-> <<IntNum(4), Num(15, 2), IntNum(9), Str(<<"7", ".", "5">>), Str(<<"N", "/", "A">>),
                       Obj>>,
     tmdb_rating |-> <<IntNum(0), IntNum(7), Num(15, 2), Str(<<"N", "/", "A">>),
                       Str(<<"T", "B", "A">>)>>,
     revenue |-> <<Str(<<"$", "1", ",", "2", "0", "0", ",", "0", "0", "0", ",", "0", "0", "0">>),
                   Str(<<"$", "1", ",", "0", "0", "0", ",", "0", "0", "0", ",", "0", "0", "0">>),
                   Str(<<"$", "9", "9", "9", ",", "9", "9", "9", ",", "9", "9", "9">>),
                   Str(<<"$", "5", "0", "0", ",", "0", "0", "0", ",", "0", "0", "0">>),
                   IntNum(1200000000), Str(<<"N", "/", "A">>)>>,
     roi |-> <<IntNum(0), Num(1, 2), IntNum(1), Num(5, 2), IntNum(4), Str(<<"N", "/", "A">>)>>]

\* the record {}
EmptyRecord == [f \in Fields |-> Undefined]

\* how many fields a drawn record carries at most
MaxFields == 3

\* the length of the longest list of drawn values
MaxDrawn == CHOOSE n \in 1..16 : /\ \A f \in Fields : Len(Drawn[f]) <= n
                                 /\ \E f \in Fields : Len(Drawn[f]) = n

\* the records that carry exactly the fields of S
RecordsOver(S) ==
    LET Choices == {c \in [S -> 1..MaxDrawn] : \A f \in S : c[f] <= Len(Drawn[f])}
    IN {[f \in Fields |-> IF f \in S THEN Drawn[f][c[f]] ELSE Undefined] : c \in Choices}

\* the sets of fields a drawn record may carry
FieldSets == {T \in SUBSET Fields : Cardinality(T) <= MaxFields}

-----------------------------------------------------------------------------
(* src/app.js, lines 100-201: searches with the automatic cold-start retry  *)

\* the searches the user submits, numbered in the order of submission
MaxSearches == 2
Searches == 1..MaxSearches

maxAttempts == 20

\* String.prototype.includes
Includes(s, sub) ==
    \E i \in 0..(Len(s) - Len(sub)) : SubSeq(s, i + 1, i + Len(sub)) = sub

FailedToFetch == <<"F", "a", "i", "l", "e", "d", " ", "t", "o", " ", "f", "e", "t", "c", "h">>
NetworkError == <<"N", "e", "t", "w", "o", "r", "k", "E", "r", "r", "o", "r">>

\* the ways a fetch of /api/search settles: a response with an OK status whose
\* body is JSON or is not, a response with another status (500) whose body is
\* not JSON or is an object with or without a detail, a rejection at the network
\* level (the TypeError of Chromium and of Firefox), and the AbortError that
\* controller.abort() raises after 10 seconds
FetchOutcomes ==
    {[kind |-> "ok", json |-> TRUE, detail |-> Undefined],
     [kind |-> "ok", json |-> FALSE, detail |-> Undefined],
     [kind |-> "status", json |-> FALSE, detail |-> Undefined],
     [kind |-> "status", json |-> TRUE, detail |-> Undefined],
     [kind |-> "status", json |-> TRUE, detail |-> Str(<<"Q", "u", "e", "r", "y", " ", "t",
             "o", "o", " ", "l", "o", "n", "g">>)],
     [kind |-> "status", json |-> TRUE, detail |-> Str(<<"F", "a", "i", "l", "e", "d", " ",
             "t", "o", " ", "f", "e", "t", "c", "h", " ", "T", "M", "D", "B">>)],
     [kind |-> "rejected", json |-> FALSE, detail |-> Str(FailedToFetch)],
     [kind |-> "rejected", json |-> FALSE, detail |-> Str(<<"N", "e", "t", "w", "o", "r", "k",
             "E", "r", "r", "o", "r", " ", "w", "h", "e", "n", " ", "a", "t", "t", "e", "m",
             "p", "t", "i", "n", "g", " ", "t", "o", " ", "f", "e", "t", "c", "h", " ", "r",
             "e", "s", "o", "u", "r", "c", "e", ".">>)],
     [kind |-> "aborted", json |-> FALSE, detail |-> Undefined]}

\* the error the try block of performSearch raises for a settled fetch that does
\* not return data
thrownError(o) ==
    CASE o.kind = "aborted" ->
           [name |-> "AbortError", message |-> <<"T", "h", "e", " ", "u", "s", "e", "r", " ",
                   "a", "b", "o", "r", "t", "e", "d", " ", "a", " ", "r", "e", "q", "u", "e",
                   "s", "t", ".">>]
      [] o.kind = "rejected" -> [name |-> "TypeError", message |-> o.detail.s]
      [] o.kind = "status" ->
           \* err = await response.json().catch(() => ({ detail: 'Search failed' }))
           \* throw new Error(err.detail || `Request failed (${response.status})`)
           LET Message(detail) == IF Truthy(detail) THEN JSString(detail)
                                  ELSE <<"R", "e", "q", "u", "e", "s", "t", " ", "f", "a", "i",
                                          "l", "e", "d", " ", "(", "5", "0", "0", ")">>
           IN [name |-> "Error",
               message |-> Message(IF o.json THEN o.detail ELSE Str(<<"S", "e", "a", "r", "c",
                       "h", " ", "f", "a", "i", "l", "e", "d">>))]
      [] OTHER -> \* return await response.json() on a body that is not JSON
           [name |-> "SyntaxError", message |-> <<"U", "n", "e", "x", "p", "e", "c", "t", "e",
                   "d", " ", "t", "o", "k", "e", "n">>]

isColdStartError(error) ==
    \/ error.name = "AbortError"
    \/ Includes(error.message, FailedToFetch)
    \/ Includes(error.message, NetworkError)

\* (the recursive call made with the same attempt number)
nextAttempt_same(attempt) == attempt

\* the attempt number of the recursive call: performSearch(query, attempt + 1)
nextAttempt(attempt) == attempt + 1

\* (the timer is cleared and the notification is left as it is)
hideColdStartNotification_timerOnly ==
    /\ pendingTimers' = pendingTimers \ {coldStartNotificationTimeout}
    /\ coldStartNotificationTimeout' = 0
    /\ notification' = notification

\* hideColdStartNotification: the timer the handle names is cleared and the
\* notification, once created, is hidden
hideColdStartNotification ==
    /\ pendingTimers' = pendingTimers \ {coldStartNotificationTimeout}
    /\ coldStartNotificationTimeout' = 0
    /\ notification' = IF notification = "none" THEN "none" ELSE "hidden"

\* A search is where its handleSearch call stands (pc), and while its
\* performSearch calls are alive, the attempt number of the innermost one and,
\* during the retry wait, the way the fetch settled that the catch block caught.
\* Each performSearch call issues one fetch (line 140), so a search whose
\* innermost call has number attempt has issued attempt + 1 fetches.
Idle == [pc |-> "idle", attempt |-> 0, settled |-> "none"]
Returned == [pc |-> "returned", attempt |-> 0, settled |-> "none"]
Thrown == [pc |-> "thrown", attempt |-> 0, settled |-> "none"]

fetchesIssued(s) ==
    IF search[s].pc \in {"fetching", "waiting"} THEN search[s].attempt + 1 ELSE 0

\* the four grids of the discover page
Grids == {"trending-grid", "now-playing-grid", "top-rated-grid", "upcoming-grid"}

\* what modalContent holds before the first openModal call, and the spinner
\* openModal puts there
EmptyContent == [kind |-> "empty", movie |-> Undefined]
Spinner == [kind |-> "spinner", movie |-> Undefined]

\* the document of a view as it is served: every panel the scripts un-hide is
\* hidden, the containers and grids hold no card, allMovies = [], no timer and
\* no request is pending
DocumentLoaded ==
    /\ loading = FALSE
    /\ searchResults = FALSE
    /\ emptyState = FALSE
    /\ errorState = FALSE
    /\ aiInterpretation = FALSE
    /\ interpretationText = Str(<<>>)
    /\ resultsSummary = FALSE
    /\ summaryText = Str(<<>>)
    /\ resultsContainer = <<>>
    /\ displayTimers = <<>>
    /\ responses = [s \in Searches |-> Undefined]
    /\ overlapping = {}
    /\ displayed = Undefined
    /\ allMovies = <<>>
    /\ modalBackdrop = FALSE
    /\ modalContent = EmptyContent
    /\ modalCalls = <<>>
    /\ grids = [g \in Grids |-> <<>>]
    /\ discover = "idle"
    /\ loads = <<>>

\* the search page after it has loaded: no search submitted, no timer, no
\* notification
PageLoaded ==
    /\ view = "search"
    /\ DocumentLoaded
    /\ search = [s \in Searches |-> Idle]
    /\ backendReady = FALSE
    /\ coldStartNotificationTimeout = 0
    /\ pendingTimers = {}
    /\ notification = "none"

\* no record has been scored
NothingScored ==
    /\ movie = EmptyRecord
    /\ copy = "none"
    /\ blend = Undefined
    /\ score = Undefined
    /\ badge = Undefined
    /\ ratingBox = Undefined
    /\ calls = <<>>

\* handleSearch with a non-empty query, up to the fetch of performSearch(query, 0);
\* the searches are numbered in the order they are submitted
Submit(s) ==
    /\ search[s].pc = "idle"
    /\ \A r \in Searches : r < s => search[r].pc # "idle"
    /\ search' = [search EXCEPT ![s] = [@ EXCEPT !.pc = "fetching"]]
    /\ UNCHANGED <<backendReady, coldStartNotificationTimeout, pendingTimers, notification>>

\* the fetch of search s settles with an OK response: backendReady is set, the
\* notification is hidden and the data is returned to handleSearch; when the
\* body is not JSON, response.json() raises after that, the catch block rethrows
\* and handleSearch hides the notification (again) and shows the error
SettleOk(s, o) ==
    /\ search[s].pc = "fetching"
    /\ o.kind = "ok"
    /\ backendReady' = TRUE
    /\ hideColdStartNotification
    /\ search' = [search EXCEPT ![s] = IF o.json THEN Returned ELSE Thrown]

\* the fetch of search s fails with an error the catch block takes for a cold
\* start, and attempts are left: after the first failure the notification timer
\* (2 s) is set, then the retry wait (3 s) begins
SettleRetry(s, o) ==
    /\ search[s].pc = "fetching"
    /\ o.kind # "ok"
    /\ isColdStartError(thrownError(o)) /\ search[s].attempt < maxAttempts
    /\ IF search[s].attempt = 0
       THEN /\ coldStartNotificationTimeout' = s
            /\ pendingTimers' = pendingTimers \cup {s}
       ELSE UNCHANGED <<coldStartNotificationTimeout, pendingTimers>>
    /\ search' = [search EXCEPT ![s] = [@ EXCEPT !.pc = "waiting", !.settled = o.kind]]
    /\ UNCHANGED <<backendReady, notification>>

\* the fetch of search s fails with any other error, or with no attempt left:
\* the catch block rethrows, handleSearch hides the notification and shows the
\* error
SettleThrow(s, o) ==
    /\ search[s].pc = "fetching"
    /\ o.kind # "ok"
    /\ ~(isColdStartError(thrownError(o)) /\ search[s].attempt < maxAttempts)
    /\ hideColdStartNotification
    /\ search' = [search EXCEPT ![s] = Thrown]
    /\ UNCHANGED backendReady

Settle(s, outcomes) ==
    \E o \in outcomes : SettleOk(s, o) \/ SettleRetry(s, o) \/ SettleThrow(s, o)

\* the notification timer that search t set fires: showColdStartNotification
NotificationTimerFires(t) ==
    /\ t \in pendingTimers
    /\ pendingTimers' = pendingTimers \ {t}
    /\ notification' = "visible"
    /\ UNCHANGED <<search, backendReady, coldStartNotificationTimeout>>

\* the retry wait of search s ends and performSearch(query, attempt + 1) issues
\* its fetch.  The wait (3000 ms) is set right after the notification timer
\* (2000 ms) of the same search, so it ends after that timer has fired or has
\* been cleared.
RetryWaitEnds(s) ==
    /\ search[s].pc = "waiting"
    /\ s \notin pendingTimers
    /\ search' = [search EXCEPT ![s] = [@ EXCEPT !.pc = "fetching",
                                                  !.attempt = nextAttempt(@),
                                                  !.settled = "none"]]
    /\ UNCHANGED <<backendReady, coldStartNotificationTimeout, pendingTimers, notification>>

Finished(s) == search[s].pc \in {"returned", "thrown"}

SearchInit == PageLoaded /\ NothingScored

\* searches submitted one after another: the next one when the last has finished
SearchNext ==
    \E s \in Searches :
        \/ Submit(s) /\ (\A r \in Searches : r < s => Finished(r)) /\ UNCHANGED <<scoreVars, pageVars>>
        \/ Settle(s, FetchOutcomes) /\ UNCHANGED <<scoreVars, pageVars>>
        \/ NotificationTimerFires(s) /\ UNCHANGED <<scoreVars, pageVars>>
        \/ RetryWaitEnds(s) /\ UNCHANGED <<scoreVars, pageVars>>

SearchSpec == SearchInit /\ [][SearchNext]_vars

\* every fetch settles or is aborted by its 10-second timeout, and every timer
\* that was set and not cleared fires
SearchFairness ==
    \A s \in Searches :
        /\ WF_vars(Settle(s, FetchOutcomes) /\ UNCHANGED <<scoreVars, pageVars>>)
        /\ WF_vars(NotificationTimerFires(s) /\ UNCHANGED <<scoreVars, pageVars>>)
        /\ WF_vars(RetryWaitEnds(s) /\ UNCHANGED <<scoreVars, pageVars>>)

LiveSearchSpec == SearchSpec /\ SearchFairness

\* searches that overlap: a search is submitted while earlier ones are in
\* flight; their fetches settle in one way of each kind the code tells apart
\* (data returned, a body that is not JSON, an error rethrown, an abort and
\* a network failure retried)
OverlapOutcomes ==
    {o \in FetchOutcomes : \/ o.kind \in {"ok", "aborted"}
                           \/ o.kind = "status" /\ ~o.json
                           \/ o.kind = "rejected" /\ o.detail = Str(FailedToFetch)}

OverlapNext ==
    \E s \in Searches :
        \/ Submit(s) /\ UNCHANGED <<scoreVars, pageVars>>
        \/ Settle(s, OverlapOutcomes) /\ UNCHANGED <<scoreVars, pageVars>>
        \/ NotificationTimerFires(s) /\ UNCHANGED <<scoreVars, pageVars>>
        \/ RetryWaitEnds(s) /\ UNCHANGED <<scoreVars, pageVars>>

OverlapSpec == SearchInit /\ [][OverlapNext]_vars

-----------------------------------------------------------------------------
(* src/app.js, lines 181-232 and 353-389: the panels of the search page.    *)
(* The steps above are the retry machine alone; the steps below are the     *)
(* same continuations with what they do to the panels: showLoading in       *)
(* handleSearch, displayResults (whose body runs in a 500 ms timer) after    *)
(* performSearch returned, showError after it threw.                         *)

\* a movie of a result list; tmdb_id is the number TMDb gives it
Movie(n) == [tmdb_id |-> IntNum(n)]

\* the text the backend writes about query s
TextOf(s) == Str(<<"q">> \o NatToStr(s))

\* the result lists of query s: none, its own movie, or that and a movie
\* every query finds
ResultsOf(s) == {<<>>, <<Movie(s)>>, <<Movie(0), Movie(s)>>}

\* the bodies /api/search answers query s with
SearchData(s) ==
    [query : {s},
     ai_interpretation : {Undefined, TextOf(s)},
     summary : {Undefined, TextOf(s)},
     results : ResultsOf(s)]

\* (bodies without ai_interpretation and summary, with no result or two)
ResultsOnly(s) ==
    {d \in SearchData(s) : /\ d.ai_interpretation = Undefined
                           /\ d.summary = Undefined
                           /\ Len(d.results) # 1}

\* createBigCard: the card of a movie, with the call its onclick attribute
\* makes: openModal('${movie.tmdb_id}')
createBigCard(m) == [openModal |-> Str(JSString(m.tmdb_id))]

\* data.results.map((movie, index) => createBigCard(movie, ...)): the cards
\* of a result list, in its order
bigCards(results) == [i \in 1..Len(results) |-> createBigCard(results[i])]

\* a search whose request is in flight, its retry waits included
InFlight(s) == search[s].pc \in {"fetching", "waiting"}

\* handleSearch with a non-empty query: showLoading, then performSearch(query)
\* up to its fetch.  It is noted (overlapping) when the search is submitted
\* while an earlier one is in flight.
handleSearch(s) ==
    /\ view = "search"
    /\ Submit(s)
    /\ loading' = TRUE
    /\ searchResults' = FALSE
    /\ emptyState' = FALSE
    /\ errorState' = FALSE
    /\ overlapping' = IF \E r \in Searches : InFlight(r)
                      THEN overlapping \cup {s} ELSE overlapping
    /\ UNCHANGED <<aiInterpretation, interpretationText, resultsSummary, summaryText>>
    /\ UNCHANGED <<resultsContainer, displayTimers, responses, displayed>>
    /\ UNCHANGED <<view, allMovies, modalVars, discoverVars>>

\* showError: hideLoading, then the error panel is filled and shown
showError ==
    /\ loading' = FALSE
    /\ errorState' = TRUE
    /\ UNCHANGED <<searchResults, emptyState>>
    /\ UNCHANGED <<aiInterpretation, interpretationText, resultsSummary, summaryText>>
    /\ UNCHANGED <<view, resultVars, allMovies, modalVars, discoverVars>>

\* the fetch of search s settles and performSearch returns data: handleSearch
\* calls displayResults(data), which sets its 500 ms timer
FetchReturns(s, outcomes, data) ==
    /\ \E o \in outcomes : o.json /\ SettleOk(s, o)
    /\ \E d \in data : /\ displayTimers' = Append(displayTimers, d)
                       /\ responses' = [responses EXCEPT ![s] = d]
    /\ UNCHANGED <<overlapping, displayed, resultsContainer>>
    /\ UNCHANGED <<view, panelVars, allMovies, modalVars, discoverVars>>

\* the fetch of search s settles and performSearch throws: the catch block of
\* handleSearch hides the notification and calls showError
FetchThrows(s, outcomes) ==
    /\ \E o \in outcomes : (~o.json /\ SettleOk(s, o)) \/ SettleThrow(s, o)
    /\ showError

\* the fetch of search s settles with a cold-start error: no panel is touched
FetchRetries(s, outcomes) ==
    /\ \E o \in outcomes : SettleRetry(s, o)
    /\ UNCHANGED pageVars

\* the body of displayResults runs, 500 ms after the call; timers of one
\* delay fire in the order they were set.  The data it ran for is noted
\* (displayed).
displayResults ==
    /\ displayTimers # <<>>
    /\ LET data == Head(displayTimers)
       IN /\ loading' = FALSE
          /\ searchResults' = TRUE
          /\ IF Truthy(data.ai_interpretation)
             THEN interpretationText' = data.ai_interpretation /\ aiInterpretation' = TRUE
             ELSE UNCHANGED <<interpretationText, aiInterpretation>>
          /\ IF Truthy(data.summary)
             THEN summaryText' = data.summary /\ resultsSummary' = TRUE
             ELSE UNCHANGED <<summaryText, resultsSummary>>
          /\ IF Len(data.results) = 0
             THEN /\ emptyState' = TRUE
                  /\ resultsContainer' = <<>>
                  /\ UNCHANGED allMovies
             ELSE /\ allMovies' = data.results
                  /\ resultsContainer' = bigCards(data.results)
                  /\ UNCHANGED emptyState
    /\ displayTimers' = Tail(displayTimers)
    /\ displayed' = Head(displayTimers)
    /\ UNCHANGED <<errorState, responses, overlapping, view, modalVars, discoverVars>>
    /\ UNCHANGED searchVars

\* the search page with searches that overlap
SearchPageNext ==
    \/ \E s \in Searches :
        \/ handleSearch(s) /\ UNCHANGED scoreVars
        \/ FetchReturns(s, OverlapOutcomes, SearchData(s)) /\ UNCHANGED scoreVars
        \/ FetchThrows(s, OverlapOutcomes) /\ UNCHANGED scoreVars
        \/ FetchRetries(s, OverlapOutcomes) /\ UNCHANGED scoreVars
        \/ NotificationTimerFires(s) /\ UNCHANGED <<scoreVars, pageVars>>
        \/ RetryWaitEnds(s) /\ UNCHANGED <<scoreVars, pageVars>>
    \/ displayResults /\ UNCHANGED scoreVars

SearchPageSpec == SearchInit /\ [][SearchPageNext]_vars

-----------------------------------------------------------------------------
(* openModal: src/app.js, lines 290-305, the same text in                   *)
(* src/unnamed/part_000, lines 172-187, and src/discover.js, lines 240-263, *)
(* which builds the content in place instead of calling renderModalContent. *)
(* closeModal (src/app.js, lines 307-310) hides the backdrop and touches    *)
(* neither the content nor a fetch in flight, so the content a call ends    *)
(* with is the same whether or not the modal was closed meanwhile; the      *)
(* model leaves the modal open.                                             *)

MaxModalCalls == 2

\* the == of JavaScript on the values drawn here
LooseEquals(a, b) ==
    CASE a.t = b.t -> a.t # "nan" /\ a = b
      [] a.t \in {"undefined", "null"} /\ b.t \in {"undefined", "null"} -> TRUE
      [] a.t = "number" /\ b.t = "string" -> a = JSNumber(b)
      [] a.t = "string" /\ b.t = "number" -> JSNumber(a) = b
      [] OTHER -> FALSE

\* (=== in place of ==)
find_strict(list, id) ==
    IF \E i \in 1..Len(list) : list[i].tmdb_id = id
    THEN list[CHOOSE i \in 1..Len(list) :
                /\ list[i].tmdb_id = id
                /\ \A j \in 1..(i - 1) : list[j].tmdb_id # id]
    ELSE Undefined

\* allMovies.find(m => m.tmdb_id == id): the first match, or undefined
find(list, id) ==
    IF \E i \in 1..Len(list) : LooseEquals(list[i].tmdb_id, id)
    THEN list[CHOOSE i \in 1..Len(list) :
                /\ LooseEquals(list[i].tmdb_id, id)
                /\ \A j \in 1..(i - 1) : ~LooseEquals(list[j].tmdb_id, id)]
    ELSE Undefined

\* the record /api/details/${id} answers with: the movie of that id, with the
\* detail fields the lists do not carry
Details(id) == [tmdb_id |-> JSNumber(id), watch_providers |-> Obj]

\* the ways the fetch of /api/details settles: an OK response with the record,
\* another status, a rejection (as is a body that is not JSON)
DetailsOutcomes == {"ok", "status", "rejected"}

\* the cards the page shows: those of the results container and of the grids
RenderedCards ==
    {resultsContainer[i] : i \in 1..Len(resultsContainer)}
    \cup UNION {{grids[g][i] : i \in 1..Len(grids[g])} : g \in Grids}

\* openModal(id) up to its fetch, called by the onclick of a rendered card
openModal(card) ==
    /\ card \in RenderedCards
    /\ Len(modalCalls) < MaxModalCalls
    /\ modalContent' = Spinner
    /\ modalBackdrop' = TRUE
    /\ modalCalls' = Append(modalCalls, [pc |-> "fetching",
                                          id |-> card.openModal,
                                          movie |-> find(allMovies, card.openModal)])
    /\ UNCHANGED <<view, panelVars, resultVars, allMovies, discoverVars>>
    /\ UNCHANGED searchVars

\* an openModal call that has ended, after a response it took the movie from
\* or after a fetch that gave none
EndedOk == [pc |-> "ok", id |-> Undefined, movie |-> Undefined]
EndedFailed == [pc |-> "failed", id |-> Undefined, movie |-> Undefined]

\* the fetch of the i-th openModal call settles: movie is replaced by the
\* response when it is OK and parses, and is rendered unless it is undefined
DetailsSettles(i, outcome) ==
    /\ i \in 1..Len(modalCalls)
    /\ modalCalls[i].pc = "fetching"
    /\ LET found == IF outcome = "ok" THEN Details(modalCalls[i].id)
                    ELSE modalCalls[i].movie
       IN /\ modalCalls' = [modalCalls EXCEPT ![i] =
                              IF outcome = "ok" THEN EndedOk ELSE EndedFailed]
          \* if (!movie) return: a record is truthy, undefined is not
          /\ modalContent' = IF found = Undefined THEN modalContent
                             ELSE [kind |-> "details", movie |-> found]
    /\ UNCHANGED <<view, panelVars, resultVars, allMovies, modalBackdrop, discoverVars>>
    /\ UNCHANGED searchVars


-----------------------------------------------------------------------------
(* The discover page: src/unnamed/part_000, lines 9-126 and 128-170, and    *)
(* the older src/discover.js, lines 9-135 and 196-238.  A grid is the        *)
(* sequence of the cards it holds; the shimmer placeholders and the          *)
(* messages ("No movies found.", "Failed to load ...") hold none.            *)

MaxLoads == 2

\* the lists /api/discover and /api/genre, /api/company answer with
DiscoverLists == {<<>>, <<Movie(1)>>, <<Movie(1), Movie(2)>>}
LoadLists == {<<>>, <<Movie(3)>>, <<Movie(1), Movie(3)>>}

\* the bodies of /api/discover: a list for the trending grid and one list for
\* the other three grids
DiscoverBodies ==
    {[g \in Grids |-> IF g = "trending-grid" THEN trending ELSE other] :
        trending \in DiscoverLists, other \in {<<>>, <<Movie(2)>>}}

\* the lists a body of /api/discover lacks (they read as undefined): none, or
\* the last one
LackedLists == {{}, {"upcoming-grid"}}

\* the card renderMovieGrid makes of a movie: onclick="openModal(${movie.tmdb_id})"
gridCard(m) == [openModal |-> m.tmdb_id]

\* renderMovieGrid: the cards of the list, or the "No movies found." message
\* for an empty one (and for a list the body lacks)
renderMovieGrid(movies) ==
    IF Len(movies) = 0 THEN <<>>
    ELSE [i \in 1..Len(movies) |-> gridCard(movies[i])]

\* (the loaded list is not added to allMovies)
addLoaded_dropped(all, results) == all

\* allMovies = [...allMovies, ...data.results]
addLoaded(all, results) == all \o results

\* the DOMContentLoaded handler calls loadDiscoverContent, which fetches
\* /api/discover
loadDiscoverContent ==
    /\ view = "discover"
    /\ discover = "idle"
    /\ discover' = "loading"
    /\ UNCHANGED <<view, panelVars, resultVars, allMovies, modalVars, grids, loads>>
    /\ UNCHANGED searchVars

\* the fetch of /api/discover settles with an OK response: the four grids are
\* rendered and allMovies is set to the four lists; spreading a list the body
\* lacks throws, and the catch block puts the failure message in every grid.
\* Then the handler sets up the genre and studio buttons.
DiscoverLoaded(data, lacked) ==
    /\ discover = "loading"
    /\ discover' = "loaded"
    /\ IF lacked # {}
       THEN /\ grids' = [g \in Grids |-> <<>>]
            /\ UNCHANGED allMovies
       ELSE /\ grids' = [g \in Grids |-> renderMovieGrid(data[g])]
            /\ allMovies' = data["trending-grid"] \o data["now-playing-grid"]
                            \o data["top-rated-grid"] \o data["upcoming-grid"]
    /\ UNCHANGED <<view, panelVars, resultVars, modalVars, loads>>
    /\ UNCHANGED searchVars

\* the fetch of /api/discover fails (a rejection, a non-OK status, a body that
\* is not JSON): the catch block puts the failure message in every grid
DiscoverFailed ==
    /\ discover = "loading"
    /\ discover' = "failed"
    /\ grids' = [g \in Grids |-> <<>>]
    /\ UNCHANGED <<view, panelVars, resultVars, allMovies, modalVars, loads>>
    /\ UNCHANGED searchVars

\* a genre chip is clicked: loadGenreMovies puts the shimmer placeholders in
\* the trending grid and fetches (loadStudioMovies, for a studio chip, is the
\* same text with /api/company)
loadGenreMovies ==
    /\ discover \in {"loaded", "failed"}
    /\ Len(loads) < MaxLoads
    /\ loads' = Append(loads, "fetching")
    /\ grids' = [grids EXCEPT !["trending-grid"] = <<>>]
    /\ UNCHANGED <<view, panelVars, resultVars, allMovies, modalVars, discover>>
    /\ UNCHANGED searchVars

\* the fetch of the i-th genre or studio load settles with an OK response:
\* the trending grid is rendered and the list is added to allMovies; for a
\* body without results the spread throws and the catch block puts the
\* failure message in the grid
GenreLoaded(i, results, lacked) ==
    /\ i \in 1..Len(loads)
    /\ loads[i] = "fetching"
    /\ loads' = [loads EXCEPT ![i] = "settled"]
    /\ IF lacked
       THEN /\ grids' = [grids EXCEPT !["trending-grid"] = <<>>]
            /\ UNCHANGED allMovies
       ELSE /\ grids' = [grids EXCEPT !["trending-grid"] = renderMovieGrid(results)]
            /\ allMovies' = addLoaded(allMovies, results)
    /\ UNCHANGED <<view, panelVars, resultVars, modalVars, discover>>
    /\ UNCHANGED searchVars

\* the fetch of the i-th genre or studio load fails: the failure message
GenreFailed(i) ==
    /\ i \in 1..Len(loads)
    /\ loads[i] = "fetching"
    /\ loads' = [loads EXCEPT ![i] = "settled"]
    /\ grids' = [grids EXCEPT !["trending-grid"] = <<>>]
    /\ UNCHANGED <<view, panelVars, resultVars, allMovies, modalVars, discover>>
    /\ UNCHANGED searchVars

-----------------------------------------------------------------------------
(* Both views, with the modal: the search page with searches that overlap   *)
(* and are answered with results or with a non-OK status, and the discover  *)
(* page with its load and the genre and studio loads.                       *)

ViewOutcomes == {o \in FetchOutcomes : o.kind = "ok" \/ (o.kind = "status" /\ ~o.json)}

ViewsInit ==
    /\ view \in {"search", "discover"}
    /\ DocumentLoaded
    /\ search = [s \in Searches |-> Idle]
    /\ backendReady = FALSE
    /\ coldStartNotificationTimeout = 0
    /\ pendingTimers = {}
    /\ notification = "none"
    /\ NothingScored

ViewsNext ==
    \/ \E s \in Searches :
        \/ handleSearch(s) /\ UNCHANGED scoreVars
        \/ FetchReturns(s, ViewOutcomes, ResultsOnly(s)) /\ UNCHANGED scoreVars
        \/ FetchThrows(s, ViewOutcomes) /\ UNCHANGED scoreVars
    \/ displayResults /\ UNCHANGED scoreVars
    \/ loadDiscoverContent /\ UNCHANGED scoreVars
    \/ \E data \in DiscoverBodies, lacked \in LackedLists :
        DiscoverLoaded(data, lacked) /\ UNCHANGED scoreVars
    \/ DiscoverFailed /\ UNCHANGED scoreVars
    \/ loadGenreMovies /\ UNCHANGED scoreVars
    \/ \E i \in 1..MaxLoads :
        \/ \E results \in LoadLists, lacked \in BOOLEAN :
            GenreLoaded(i, results, lacked) /\ UNCHANGED scoreVars
        \/ GenreFailed(i) /\ UNCHANGED scoreVars
    \/ \E card \in RenderedCards : openModal(card) /\ UNCHANGED scoreVars
    \/ \E i \in 1..MaxModalCalls, outcome \in DetailsOutcomes :
        DetailsSettles(i, outcome) /\ UNCHANGED scoreVars

ViewsSpec == ViewsInit /\ [][ViewsNext]_vars

-----------------------------------------------------------------------------
(* The state: the record handed to a renderer, the copy of                 *)
(* calculateOracleScore that renderer last called on it ("none" before any *)
(* call), the blend that call computed (its local scoreSum / weightSum, or *)
(* the mean of the components; undefined when it returned earlier), the     *)
(* value the call returned, and what the card and the modal of that        *)
(* renderer show of it: the Oracle badge and the Oracle rating box.        *)

Init ==
    /\ \E S \in FieldSets : movie \in RecordsOver(S)
    /\ copy = "none"
    /\ blend = Undefined
    /\ score = Undefined
    /\ badge = Undefined
    /\ ratingBox = Undefined
    /\ calls = <<>>
    /\ PageLoaded

\* createBigCard, renderMovieGrid and renderModalContent of the current pages
\* call the shared.js copy
ScoreShared ==
    /\ copy' = "shared"
    /\ blend' = finalScore_shared(movie)
    /\ score' = calculateOracleScore_shared(movie)
    /\ badge' = oracleBadge(score')
    /\ ratingBox' = buildRatingBox(score')
    /\ UNCHANGED <<movie, calls, searchVars, pageVars>>

\* createBigCard and openModal of the older app.js call its own copy
ScoreApp ==
    /\ copy' = "app"
    /\ blend' = finalScore_app(movie)
    /\ score' = calculateOracleScore_app(movie)
    /\ badge' = oracleBadge(score')
    /\ ratingBox' = buildRatingBox(score')
    /\ UNCHANGED <<movie, calls, searchVars, pageVars>>

\* renderMovieGrid and openModal of the older discover.js call its own copy
ScoreDiscover ==
    /\ copy' = "discover"
    /\ blend' = baseScore_discover(movie)
    /\ score' = calculateOracleScore_discover(movie)
    /\ badge' = oracleBadge(score')
    /\ ratingBox' = buildRatingBox(score')
    /\ UNCHANGED <<movie, calls, searchVars, pageVars>>

Next == ScoreShared \/ ScoreApp \/ ScoreDiscover

Spec == Init /\ [][Next]_vars

-----------------------------------------------------------------------------
(* Repeated calls: calculateOracleScore called several times on one record, *)
(* by any copies in any order; `calls` logs the copy and the result of each *)
(* call.  The function bodies assign to locals only (scoreSum, weightSum,   *)
(* components, modifier, finalScore): no field of movie and no variable     *)
(* outside the function is written.                                         *)

\* how many fields a record that is scored repeatedly carries at most
MaxCallFields == 2

\* how many calls are made on one record
MaxCalls == 3

CallInit ==
    /\ \E S \in {T \in FieldSets : Cardinality(T) <= MaxCallFields} : movie \in RecordsOver(S)
    /\ copy = "none"
    /\ blend = Undefined
    /\ score = Undefined
    /\ badge = Undefined
    /\ ratingBox = Undefined
    /\ calls = <<>>
    /\ PageLoaded

CallShared ==
    /\ Len(calls) < MaxCalls
    /\ copy' = "shared"
    /\ blend' = finalScore_shared(movie)
    /\ score' = calculateOracleScore_shared(movie)
    /\ calls' = Append(calls, [copy |-> "shared", result |-> score'])
    /\ UNCHANGED <<movie, badge, ratingBox, searchVars, pageVars>>

CallApp ==
    /\ Len(calls) < MaxCalls
    /\ copy' = "app"
    /\ blend' = finalScore_app(movie)
    /\ score' = calculateOracleScore_app(movie)
    /\ calls' = Append(calls, [copy |-> "app", result |-> score'])
    /\ UNCHANGED <<movie, badge, ratingBox, searchVars, pageVars>>

CallDiscover ==
    /\ Len(calls) < MaxCalls
    /\ copy' = "discover"
    /\ blend' = baseScore_discover(movie)
    /\ score' = calculateOracleScore_discover(movie)
    /\ calls' = Append(calls, [copy |-> "discover", result |-> score'])
    /\ UNCHANGED <<movie, badge, ratingBox, searchVars, pageVars>>

CallNext == CallShared \/ CallApp \/ CallDiscover

CallSpec == CallInit /\ [][CallNext]_vars

-----------------------------------------------------------------------------
(* The vocabulary of the specification *)

\* the string "N/A" in any letter case
IsNA(v) == v.t = "string" /\ ToUpperCase(v.s) = NA

\* a field that holds no number: missing, null, "N/A" or a string without a
\* digit, a boolean, an object
Absent(v) == \/ v = Undefined \/ v = Null \/ v.t \in {"boolean", "object"}
             \/ (v.t = "string" /\ SelectSeq(v.s, IsDigit) = <<>>)

\* a value that is no finite number and cannot be parsed as one: a non-numeric
\* string (other than "N/A" and the empty string), a boolean, an object
Unparseable(v) == \/ v.t \in {"boolean", "object"}
                  \/ (v.t = "string" /\ v.s # <<>> /\ ~IsNA(v)
                        /\ SelectSeq(v.s, IsDigit) = <<>>)

\* the number a present field holds
ValueOf(v) == IF v.t = "number" THEN v ELSE ParseFloatStr(v.s)

\* the field a copy reads its trusted score from
TrustedField(c) == IF c = "discover" THEN "ai_score" ELSE "oracle_score"

\* clamp(round(x), 0, 100)
ClampRound(x) == MathMax(IntNum(0), MathMin(IntNum(100), MathRound(x)))

\* an integer between 0 and 100
IsScore(v) == v.t = "number" /\ v.d = 1 /\ v.n >= 0 /\ v.n <= 100

\* the rating signals a record holds
PresentSignals(m) == {f \in RatingFields : ~Absent(m[f])}

\* a signal on the 0-100 scale: IMDb and TMDb ratings are multiplied by 10
Normalized(m, f) == IF f \in {"imdb_rating", "tmdb_rating"}
                    THEN Mul(ValueOf(m[f]), IntNum(10)) ELSE ValueOf(m[f])

\* the weights the specification gives the signals in shared.js
SpecWeight == [metascore |-> IntNum(3), rotten_tomatoes |-> Num(5, 2),
               imdb_rating |-> IntNum(2), tmdb_rating |-> Num(3, 2)]

RECURSIVE WeightedSum(_, _)
WeightedSum(m, S) == IF S = {} THEN IntNum(0)
                     ELSE LET f == CHOOSE g \in S : TRUE
                          IN Add(Mul(Normalized(m, f), SpecWeight[f]), WeightedSum(m, S \ {f}))
RECURSIVE WeightTotal(_)
WeightTotal(S) == IF S = {} THEN IntNum(0)
                  ELSE LET f == CHOOSE g \in S : TRUE
                       IN Add(SpecWeight[f], WeightTotal(S \ {f}))

\* sum(value_i * weight_i) / sum(weight_i) over the signals present
WeightedMean(m) == Div(WeightedSum(m, PresentSignals(m)), WeightTotal(PresentSignals(m)))

\* the weights each copy gives the signals: 3, 2.5, 2 and 1.5 in shared.js, 3,
\* 2.5, 2 and 1 in app.js, a plain mean in discover.js
CopyWeight(c) ==
    CASE c = "shared" -> SpecWeight
      [] c = "app" -> [metascore |-> IntNum(3), rotten_tomatoes |-> Num(5, 2),
                       imdb_rating |-> IntNum(2), tmdb_rating |-> IntNum(1)]
      [] c = "discover" -> [f \in RatingFields |-> IntNum(1)]

RECURSIVE WeightedSumWith(_, _, _)
WeightedSumWith(m, S, w) ==
    IF S = {} THEN IntNum(0)
    ELSE LET f == CHOOSE g \in S : TRUE
         IN Add(Mul(Normalized(m, f), w[f]), WeightedSumWith(m, S \ {f}, w))
RECURSIVE WeightTotalWith(_, _)
WeightTotalWith(S, w) ==
    IF S = {} THEN IntNum(0)
    ELSE LET f == CHOOSE g \in S : TRUE IN Add(w[f], WeightTotalWith(S \ {f}, w))

\* the weighted mean of the present signals under the weights w
WeightedMeanWith(m, w) ==
    Div(WeightedSumWith(m, PresentSignals(m), w), WeightTotalWith(PresentSignals(m), w))

\* a record given by the fields it carries
Record(over) == [f \in Fields |-> IF f \in DOMAIN over THEN over[f] ELSE Undefined]

\* a signal the app.js and discover.js copies admit: present and truthy (their
\* `if (movie.x && ...)` guards skip a numeric 0)
Admitted(v) == ~Absent(v) /\ Truthy(v)

\* a signal present to copy c: one the copy admits to its blend
Present(c, v) == IF c = "shared" THEN ~Absent(v) ELSE Admitted(v)

\* the divergence bonus as the specification words it: +5 when IMDb x10 exceeds
\* Metascore by more than 15 points, both being present
DivergenceBonus(m, present(_)) ==
    IF /\ present(m.imdb_rating) /\ present(m.metascore)
       /\ Gt(Add(Mul(ValueOf(m.imdb_rating), IntNum(10)),
                 Mul(ValueOf(m.metascore), IntNum(-1))), IntNum(15))
    THEN IntNum(5) ELSE IntNum(0)

\* the integer left of revenue when every non-digit character is deleted
RevenueDigits(v) == IF v.t \in {"string", "number"}
                    THEN ParseIntStr(SelectSeq(JSString(v), IsDigit)) ELSE NaN

\* the blockbuster bonus: `bonus` when the revenue digits reach 1,000,000,000
BlockbusterBonus(m, bonus) ==
    IF Ge(RevenueDigits(m.revenue), IntNum(1000000000)) THEN IntNum(bonus) ELSE IntNum(0)

\* the richer variant's revenue rule: +5 from 1,000,000,000, +2 from 500,000,000
RevenueModifier(m) ==
    IF Ge(RevenueDigits(m.revenue), IntNum(1000000000)) THEN IntNum(5)
    ELSE IF Ge(RevenueDigits(m.revenue), IntNum(500000000)) THEN IntNum(2)
    ELSE IntNum(0)

\* the richer variant's ROI scale, for every numeric ROI
RoiModifier(m) ==
    IF Absent(m.roi) THEN IntNum(0)
    ELSE IF Ge(ValueOf(m.roi), IntNum(4)) THEN IntNum(5)
    ELSE IF Ge(ValueOf(m.roi), Num(5, 2)) THEN IntNum(2)
    ELSE IF Lt(ValueOf(m.roi), IntNum(1)) THEN IntNum(-5)
    ELSE IntNum(0)

\* the copies of calculateOracleScore
Copies == {"shared", "app", "discover"}

\* the value copy c returns for record m
ScoreBy(c, m) == CASE c = "shared" -> calculateOracleScore_shared(m)
                   [] c = "app" -> calculateOracleScore_app(m)
                   [] c = "discover" -> calculateOracleScore_discover(m)

\* the records that differ from m in field f alone, f holding a higher value
Raised(m, f) ==
    {[m EXCEPT ![f] = Drawn[f][i]] : i \in {j \in 1..Len(Drawn[f]) :
        ~Absent(Drawn[f][j]) /\ Gt(ValueOf(Drawn[f][j]), ValueOf(m[f]))}}

\* scenario 2 and scenario 3 of the specification
Scenario2 == Record([imdb_rating |-> IntNum(9), metascore |-> IntNum(60)])
Scenario3 == Record([revenue |-> Drawn.revenue[1], metascore |-> IntNum(50)])


-----------------------------------------------------------------------------
(* Claims *)

\* C1: a call on a record whose trusted score (oracle_score for shared.js and
\* app.js, ai_score for discover.js) is a number S returns clamp(round(S), 0, 100),
\* whatever the other fields hold.
C1_TrustedScoreClampedAndRounded ==
    (copy # "none" /\ movie[TrustedField(copy)].t = "number")
        => score = ClampRound(movie[TrustedField(copy)])

\* C2: every call of every copy returns the unavailable value (null) or an
\* integer between 0 and 100.
C2_ResultUnavailableOrInRange ==
    copy # "none" => (score = Null \/ IsScore(score))

\* C3: a call of the shared.js or discover.js copy on a record with no trusted
\* score and no parsable rating signal returns the unavailable value (null).
C3_NoSignalIsUnavailable ==
    (/\ copy \in {"shared", "discover"}
     /\ movie[TrustedField(copy)] \in {Undefined, Null}
     /\ PresentSignals(movie) = {})
        => score = Null

\* C4: whenever the shared.js copy computes a blend, the blend is
\* sum(value_i * weight_i) / sum(weight_i) over exactly the signals present,
\* with the weights 3.0, 2.5, 2.0 (IMDb x10) and 1.5 (TMDb x10); and it computes
\* one for every record whose oracle_score is missing or "N/A" and that holds
\* at least one rating signal.
C4_BlendIsWeightedMeanOfPresentSignals ==
    copy = "shared" =>
        /\ blend # Undefined => blend = WeightedMean(movie)
        /\ ((movie.oracle_score = Undefined \/ IsNA(movie.oracle_score))
             /\ PresentSignals(movie) # {}) => blend # Undefined

\* C4 witness: Metascore 60 and IMDb 9.0 with TMDb "N/A" blend to 72, the "N/A"
\* adding nothing to either sum.
C4_Witness ==
    /\ copy = "shared"
    /\ movie.metascore = IntNum(60)
    /\ movie.imdb_rating = IntNum(9)
    /\ IsNA(movie.tmdb_rating)
    /\ blend = IntNum(72)

C7_DiscoverFinancialModifier ==
    (copy = "discover" /\ blend.t = "number") =>
        score = ClampRound(Add(blend, Add(RoiModifier(movie), RevenueModifier(movie))))

\* C8: the blockbuster bonus (+3 in app.js, +5 in discover.js) is added whenever
\* the integer left of revenue after deleting every non-digit character is at
\* least 1,000,000,000, for a string and for a raw number, and not below.
C8_BlockbusterBonusFromRevenueDigits ==
    /\ (copy = "app" /\ blend.t = "number") =>
          score = MathMin(IntNum(100),
                          MathRound(Add(Add(blend, cultClassicBonus(movie)),
                                        BlockbusterBonus(movie, 3))))
    /\ (copy = "discover" /\ blend.t = "number") =>
          score = ClampRound(Add(Add(blend, IntNum(roiModifier(movie))),
                                 IF BlockbusterBonus(movie, 5) = IntNum(5) THEN IntNum(5)
                                 ELSE IntNum(revenueModifier(movie))))

C10_NAFieldIsTreatedAsAbsent ==
    copy # "none" =>
        \A f \in Fields :
            IsNA(movie[f]) => score = ScoreBy(copy, [movie EXCEPT ![f] = Undefined])

\* C11: in every copy a field whose value is no finite number and cannot be
\* parsed as one (a non-numeric string, a boolean, an object) is treated as
\* absent: the result is the result for the record without that field.
C11_UnparseableFieldIsTreatedAsAbsent ==
    copy # "none" =>
        \A f \in Fields :
            Unparseable(movie[f]) => score = ScoreBy(copy, [movie EXCEPT ![f] = Undefined])

\* C12: the copies are one formula: for every record the shared.js, app.js and
\* discover.js copies return the same result.
C12_CopiesReturnTheSameResult ==
    copy # "none" => \A c \in Copies : ScoreBy(c, movie) = score

\* C13: the renderers that call the shared.js copy show the Oracle badge and
\* the Oracle rating box if and only if the copy returned a defined score (not
\* null), and then they show exactly that score.
C13_BadgeShownIffScoreDefined ==
    copy = "shared" =>
        /\ badge # Undefined <=> score # Null
        /\ ratingBox # Undefined <=> score # Null
        /\ score # Null => (badge = Str(JSString(score)) /\ ratingBox = Str(JSString(score)))

C16_EmptyOracleScoreFallsThroughToBlend ==
    (copy = "shared" /\ movie.oracle_score \in {Undefined, Null, Str(<<>>)}) =>
        score = IF PresentSignals(movie) = {} THEN Null ELSE ClampRound(WeightedMean(movie))

\* C17: in every copy a rating signal whose value is the number 0 counts as
\* present: for a record without a trusted score whose rating signals are
\* numbers, one of them 0, the copy blends all of them, the 0 entering with its
\* weight in numerator and denominator.
C17_NumericZeroCountsAsPresent ==
    (/\ copy # "none"
     /\ movie[TrustedField(copy)] = Undefined
     /\ \A f \in RatingFields : movie[f].t \in {"undefined", "number"}
     /\ \E f \in RatingFields : movie[f] = IntNum(0))
        => blend = WeightedMeanWith(movie, CopyWeight(copy))

\* C15: provided every fetch settles or is aborted by its timeout, a search
\* whose performSearch call is in flight eventually returns data to
\* handleSearch or throws to it, and the attempt number never passes
\* maxAttempts.
C15_EverySearchEventuallyFinishes ==
    /\ \A s \in Searches : (search[s].pc = "fetching") ~> Finished(s)
    /\ [](\A s \in Searches : search[s].attempt <= maxAttempts)

\* the first search has retried long enough for the notification to show,
\* has finished and has hidden it
C15_Witness ==
    /\ Finished(1)
    /\ notification = "hidden"
    /\ search[2] = Idle

\* C18: a search issues at most maxAttempts = 20 fetch requests.
C18_AtMostMaxAttemptsFetches ==
    \A s \in Searches : fetchesIssued(s) <= maxAttempts

\* C19: a search waits for a retry only after its fetch was aborted by the
\* timeout or failed at the network level, never after a response with a
\* non-OK status, whatever detail the server sent.
C19_RetriesOnlyAfterAbortOrNetworkFailure ==
    \A s \in Searches :
        search[s].pc = "waiting" => search[s].settled \in {"aborted", "rejected"}

\* a search is retrying after a cold-start failure
Retrying(s) ==
    \/ search[s].pc = "waiting"
    \/ search[s].pc = "fetching" /\ search[s].attempt > 0

\* C20: the cold-start notification is visible only while some search is
\* retrying after a cold-start failure; once every started search has finished
\* it is hidden and no pending timer can show it, also when searches overlap
\* and share the one coldStartNotificationTimeout handle.
C20_NotificationOnlyWhileRetrying ==
    /\ notification = "visible" => \E s \in Searches : Retrying(s)
    /\ (\A s \in Searches : search[s].pc = "idle" \/ Finished(s)) =>
           notification # "visible" /\ pendingTimers = {}

\* the second search overwrote the handle of the first one's timer, finished
\* and hid the notification; the first one's timer fired after that, and the
\* first search is still waiting for its retry
C20_Witness ==
    /\ search[1].pc = "waiting"
    /\ Finished(2)
    /\ notification = "visible"

\* the search submitted last
LastSubmitted ==
    CHOOSE s \in Searches :
        search[s].pc # "idle" /\ \A r \in Searches : r > s => search[r].pc = "idle"

\* every submitted search has returned data and every displayResults body
\* has run
AllDisplayed ==
    /\ search[1].pc # "idle"
    /\ \A s \in Searches : search[s].pc \in {"idle", "returned"}
    /\ displayTimers = <<>>

\* C21: when the search submitted last was submitted while an earlier one was
\* in flight, then once all searches have returned and been displayed the
\* results container and allMovies hold the results of the search submitted
\* last, whatever order the responses arrived in.
C21_LastQueryWins ==
    AllDisplayed /\ LastSubmitted \in overlapping =>
        /\ resultsContainer = bigCards(responses[LastSubmitted].results)
        /\ allMovies = responses[LastSubmitted].results

\* C22: whenever a search is in flight, its retry waits included, the loading
\* panel is visible.
C22_LoadingVisibleWhileInFlight ==
    (\E s \in Searches : InFlight(s)) => loading

\* C23: the error panel and the search-results panel are never visible at the
\* same time.
C23_ErrorAndResultsExclusive ==
    ~(errorState /\ searchResults)

\* C24: while the results displayResults last ran for are shown, the
\* AI-interpretation panel is visible only if that response contained
\* ai_interpretation, and then shows its text; the same for the summary panel.
C24_PanelsBelongToDisplayedResponse ==
    searchResults =>
        /\ aiInterpretation =>
              Truthy(displayed.ai_interpretation)
              /\ interpretationText = displayed.ai_interpretation
        /\ resultsSummary =>
              Truthy(displayed.summary) /\ summaryText = displayed.summary

\* C25: the modal shows the spinner only while the fetch of some openModal
\* call is pending, and the step that ends an openModal call leaves the modal
\* showing the movie's detail content: the /api/details response when that
\* request succeeded, otherwise the record found in allMovies.
C25_ModalEndsWithDetailContent ==
    /\ [](modalContent = Spinner =>
            \E i \in 1..Len(modalCalls) : modalCalls[i].pc = "fetching")
    /\ [][\A i \in 1..Len(modalCalls) :
            modalCalls[i].pc = "fetching" /\ modalCalls'[i].pc # "fetching" =>
                /\ modalCalls[i].movie # Undefined
                /\ modalContent' =
                     [kind |-> "details",
                      movie |-> IF modalCalls'[i].pc = "ok"
                                THEN Details(modalCalls[i].id)
                                ELSE modalCalls[i].movie]]_vars

\* an openModal call on the search page has ended after a failed fetch and
\* the modal shows the record of allMovies
C25_Witness ==
    /\ view = "search"
    /\ Len(modalCalls) = 1
    /\ modalCalls[1].pc = "failed"
    /\ modalBackdrop
    /\ modalContent = [kind |-> "details", movie |-> Movie(1)]

\* C26: in every view, openModal's lookup finds a record of allMovies for
\* every card that is rendered.
C26_RenderedCardsAreInAllMovies ==
    \A card \in RenderedCards : find(allMovies, card.openModal) # Undefined

\* on the discover page, after the discover load, a genre load has replaced
\* the trending grid by a movie the discover lists did not hold
C26_Witness ==
    /\ view = "discover"
    /\ discover = "loaded"
    /\ loads = <<"settled">>
    /\ grids["trending-grid"] = <<gridCard(Movie(3))>>
    /\ grids["upcoming-grid"] = <<gridCard(Movie(2))>>
    /\ Len(allMovies) > 3

=============================================================================
